---- MODULE Spec2Model ----
(***************************************************************************)
(* Model of the ai-metadata index generator (generate-index.mjs), the      *)
(* description pass (describe-files.mjs) and the sync-repo driver.         *)
(*                                                                         *)
(* A JavaScript string is a sequence of one-character strings, so that     *)
(* startsWith, slice, split, the path functions and the default sort are   *)
(* computed character by character.                                        *)
(***************************************************************************)
EXTENDS Integers, Sequences, FiniteSets, TLC

(***************************************************************************)
(* Characters, in UTF-16 code unit order (the order of Array.sort()).      *)
(* The escape sequence \u007a, as written inside a string literal of a     *)
(* source text, is kept as one unit: it sorts as its backslash does.       *)
(***************************************************************************)
Alphabet ==
  << "'", "*", ".", "/",
     "0", "1", "2", "3", "4", "5", "6", "7", "8", "9",
     ";", "@", "A", "S", "V", "\\", "\\u007a", "_",
     "a", "b", "c", "d", "e", "f", "g", "h", "i", "j", "k", "l", "m",
     "n", "o", "p", "q", "r", "s", "t", "u", "v", "w", "x", "y", "z" >>

Range(f) == { f[i] : i \in DOMAIN f }

Code == [ c \in Range(Alphabet) |-> CHOOSE i \in 1..Len(Alphabet) : Alphabet[i] = c ]

\* The body applied to the value of an expression, as a JavaScript const binds it.
Let(value, In(_)) == CHOOSE r \in { In(v) : v \in { value } } : TRUE

\* a < b as strings: equal up to a position where a ends or has the smaller code unit.
StrLess(a, b) ==
  \E i \in 1..Len(b) :
    /\ \A j \in 1..(i - 1) : j <= Len(a) /\ a[j] = b[j]
    /\ \/ i > Len(a)
       \/ a[i] # b[i] /\ Code[a[i]] < Code[b[i]]

StartsWith(s, pre) ==
  Len(pre) <= Len(s) /\ SubSeq(s, 1, Len(pre)) = pre

EndsWith(s, suf) ==
  Len(suf) <= Len(s) /\ SubSeq(s, Len(s) - Len(suf) + 1, Len(s)) = suf

\* s.slice(n)
SliceFrom(s, n) == SubSeq(s, n + 1, Len(s))

\* s.slice(0, -n)
DropLast(s, n) == SubSeq(s, 1, Len(s) - n)

Includes(s, sub) ==
  \E i \in 0..(Len(s) - Len(sub)) : SubSeq(s, i + 1, i + Len(sub)) = sub

\* The k-th smallest element of a set of numbers.
Kth(C, k) == CHOOSE c \in C : Cardinality({ d \in C : d < c }) = k - 1

\* s.split(sep): the pieces between consecutive separators.
Split(s, sep) ==
  Let({ 0 } \cup { i \in 1..Len(s) : s[i] = sep } \cup { Len(s) + 1 },
      LAMBDA cuts : [ k \in 1..(Cardinality(cuts) - 1) |->
                        SubSeq(s, Kth(cuts, k) + 1, Kth(cuts, k + 1) - 1) ])

RECURSIVE Join(_, _)
Join(parts, sep) ==
  IF parts = <<>> THEN <<>>
  ELSE IF Len(parts) = 1 THEN parts[1]
  ELSE parts[1] \o sep \o Join(Tail(parts), sep)

\* Array.prototype.sort() on strings: the element at each rank (the sort is stable).
SortArray(array) ==
  Let(array,
      LAMBDA arr :
        [ i \in 1..Len(arr) |->
            arr[CHOOSE j \in 1..Len(arr) :
                  Cardinality({ k \in 1..Len(arr) :
                                  StrLess(arr[k], arr[j]) \/ (arr[k] = arr[j] /\ k < j) })
                    = i - 1] ])

\* Array.from(set).sort()
SortedFromSet(set) ==
  Let(set,
      LAMBDA S :
        [ i \in 1..Cardinality(S) |->
            CHOOSE x \in S : Cardinality({ y \in S : StrLess(y, x) }) = i - 1 ])

(***************************************************************************)
(* node:path (POSIX)                                                       *)
(***************************************************************************)
IsAbsolute(p) == p # <<>> /\ p[1] = "/"

RECURSIVE NormalizeSegs(_, _, _)
NormalizeSegs(segs, acc, allowAboveRoot) ==
  IF segs = <<>> THEN acc
  ELSE LET s == Head(segs) rest == Tail(segs) IN
       IF s = <<>> \/ s = << "." >> THEN NormalizeSegs(rest, acc, allowAboveRoot)
       ELSE IF s = << ".", "." >> THEN
              IF acc # <<>> /\ acc[Len(acc)] # << ".", "." >>
                THEN NormalizeSegs(rest, SubSeq(acc, 1, Len(acc) - 1), allowAboveRoot)
              ELSE IF allowAboveRoot THEN NormalizeSegs(rest, Append(acc, s), allowAboveRoot)
              ELSE NormalizeSegs(rest, acc, allowAboveRoot)
       ELSE NormalizeSegs(rest, Append(acc, s), allowAboveRoot)

\* The segments of a path with '.', '..' and empty segments resolved.
NormalSegs(p, allowAboveRoot) ==
  Let(Split(p, "/"), LAMBDA segs : NormalizeSegs(segs, <<>>, allowAboveRoot))

JoinSegs(segs) == Let(segs, LAMBDA parts : Join(parts, << "/" >>))

PathNormalize(p) ==
  IF p = <<>> THEN << "." >>
  ELSE LET abs      == IsAbsolute(p)
           trailing == p[Len(p)] = "/"
       IN  Let(JoinSegs(NormalSegs(p, ~abs)),
               LAMBDA body :
                 IF body = <<>> THEN
                   (IF abs THEN << "/" >> ELSE IF trailing THEN << ".", "/" >> ELSE << "." >>)
                 ELSE (IF abs THEN << "/" >> ELSE <<>>) \o body
                      \o (IF trailing THEN << "/" >> ELSE <<>>))

PathJoin(a, b) ==
  IF a = <<>> /\ b = <<>> THEN << "." >>
  ELSE IF a = <<>> THEN PathNormalize(b)
  ELSE IF b = <<>> THEN PathNormalize(a)
  ELSE Let(a \o << "/" >> \o b, LAMBDA joined : PathNormalize(joined))

\* path.dirname of a path without trailing slashes.
PathDirname(p) ==
  IF \A i \in 1..Len(p) : p[i] # "/" THEN << "." >>
  ELSE LET k == CHOOSE i \in 1..Len(p) :
                   p[i] = "/" /\ \A j \in (i + 1)..Len(p) : p[j] # "/"
       IN  IF k = 1 THEN << "/" >> ELSE SubSeq(p, 1, k - 1)

PathBasename(p) ==
  Let(Split(p, "/"), LAMBDA segs : segs[Len(segs)])

\* path.resolve(root, rel) for an absolute, normalized root.
PathResolve(root, rel) ==
  Let(IF rel = <<>> THEN root
      ELSE IF IsAbsolute(rel) THEN rel
      ELSE root \o << "/" >> \o rel,
      LAMBDA full : << "/" >> \o JoinSegs(NormalSegs(full, FALSE)))

PathExtname(p) ==
  Let(PathBasename(p),
      LAMBDA base :
        IF \A i \in 1..Len(base) : base[i] # "." THEN <<>>
        ELSE LET k == CHOOSE i \in 1..Len(base) :
                         base[i] = "." /\ \A j \in (i + 1)..Len(base) : base[j] # "."
             IN  IF k = 1 \/ base = << ".", "." >> THEN <<>>
                 ELSE SubSeq(base, k, Len(base)))

RECURSIVE CommonPrefixLen(_, _)
CommonPrefixLen(a, b) ==
  IF a = <<>> \/ b = <<>> \/ Head(a) # Head(b) THEN 0
  ELSE 1 + CommonPrefixLen(Tail(a), Tail(b))

\* path.relative(from, to) for absolute, normalized paths.
PathRelative(from, to) ==
  Let(<< NormalSegs(from, FALSE), NormalSegs(to, FALSE) >>,
      LAMBDA ft :
        Let(CommonPrefixLen(ft[1], ft[2]),
            LAMBDA n : JoinSegs([ i \in 1..(Len(ft[1]) - n) |-> << ".", "." >> ]
                                \o SubSeq(ft[2], n + 1, Len(ft[2])))))

toPosixPath(filePath) == JoinSegs(Split(filePath, "/"))


toLowerCase(s) ==
  [i \in 1..Len(s) |-> IF s[i] = "A" THEN "a" ELSE IF s[i] = "S" THEN "s"
                       ELSE IF s[i] = "V" THEN "v" ELSE s[i]]

\* JavaScript null / undefined where a string is expected.
Null == << "null" >>

\* Boolean(v) for a string or null.
Truthy(v) == v # Null /\ v # <<>>

(***************************************************************************)
(* Program constants                                                       *)
(***************************************************************************)
SCHEMA_VERSION == 2

DESC_SCHEMA_VERSION == 2

SOURCE_EXTENSIONS ==
  { <<".", "t", "s">>,
    <<".", "t", "s", "x">>,
    <<".", "j", "s">>,
    <<".", "j", "s", "x">>,
    <<".", "m", "j", "s">>,
    <<".", "c", "j", "s">> }

RESOLVE_EXTENSIONS ==
  << <<".", "t", "s">>,
     <<".", "t", "s", "x">>,
     <<".", "j", "s">>,
     <<".", "j", "s", "x">>,
     <<".", "m", "j", "s">>,
     <<".", "c", "j", "s">>,
     <<".", "j", "s", "o", "n">>,
     <<".", "c", "s", "s">> >>

TAG_KEYWORDS ==
  << <<"c", "a", "n", "v", "a", "s">>,
     <<"a", "r", "t", "b", "o", "a", "r", "d">>,
     <<"f", "l", "o", "w">>,
     <<"r", "e", "a", "c", "t", "f", "l", "o", "w">>,
     <<"x", "y", "f", "l", "o", "w">>,
     <<"s", "t", "o", "r", "y", "b", "o", "a", "r", "d">>,
     <<"p", "u", "b", "l", "i", "s", "h">>,
     <<"p", "r", "o", "f", "i", "l", "e">>,
     <<"s", "u", "b", "s", "c", "r", "i", "p", "t", "i", "o", "n">>,
     <<"s", "e", "t", "t", "i", "n", "g", "s">>,
     <<"h", "t", "t", "p">>,
     <<"a", "u", "t", "h">>,
     <<"t", "o", "k", "e", "n">>,
     <<"k", "l", "i", "n", "g">>,
     <<"y", "u", "n", "w", "u">>,
     <<"g", "e", "m", "i", "n", "i">>,
     <<"g", "r", "s">>,
     <<"q", "r", "c", "o", "d", "e">>,
     <<"z", "i", "p">>,
     <<"w", "o", "r", "k", "e", "r">> >>

API_CAP == 25

STORAGE_CAP == 25

ENV_CAP == 40

\* process.cwd(): the repository root.
projectRootAbs == << "/", "r" >>

(***************************************************************************)
(* State                                                                   *)
(***************************************************************************)
VARIABLES
  disk,       \* the filesystem: absolute path of each existing file |-> its text
  tracked,    \* git ls-files: the repository-relative paths under version control
  tsconfig,   \* tsconfig.json: [present, valid, paths], paths a sequence of alias rules
  indexJson,  \* ai-metadata/index.json
  indexMd,    \* ai-metadata/index.md
  descJson,   \* ai-metadata/descriptions.json
  descMd,     \* ai-metadata/descriptions.md
  clock,      \* new Date(): the number of timestamps handed out so far
  pc,         \* position of the running script, "idle" when none runs
  driver,     \* "shell" (a script started alone) or "sync" (started by sync-repo)
  status,     \* exit status of the last finished process
  ixrun,      \* generateIndex's locals: previousIndex, the index built, reused paths
  dsrun,      \* describe-files main's locals: index, prev, next, updated, carried
  before,     \* the four output files as they were when the current run started
  quiet,      \* no file of the tree or of the outputs was edited since the last full sync
  edits,      \* number of edits made to the tree so far
  call,       \* the arguments of the function being applied, when one is applied alone
  ret         \* what that function returned

envVars == << disk, tracked, tsconfig >>
outVars == << indexJson, indexMd, descJson, descMd >>
runVars == << pc, driver, status, ixrun, dsrun, before >>
vars == << disk, tracked, tsconfig, indexJson, indexMd, descJson, descMd,
           clock, pc, driver, status, ixrun, dsrun, before, quiet, edits, call, ret >>

\* A file that does not exist, and a file a failed write left truncated.
NoFile == [file |-> "absent"]
Partial == [file |-> "truncated"]

\* No locals: no script is running.
NoRun == [run |-> "none"]

(***************************************************************************)
(* generate-index.mjs                                                      *)
(***************************************************************************)
\* createHash('sha256').update(text).digest('hex'): collision-free.
sha256(text) == [digest |-> text]

\* fs.access succeeds for a file and for a directory holding a file.
pathExists(filePath) ==
  \E f \in DOMAIN disk :
    \/ f = filePath
    \/ StartsWith(f, filePath \o << "/" >>)

\* JSON.parse of the file's text; null when missing or not JSON.
readJsonIfExists(file) ==
  IF file = NoFile \/ file = Partial THEN NoFile ELSE file

readTsconfigPaths(cfg) ==
  IF ~cfg.present \/ ~cfg.valid THEN <<>> ELSE cfg.paths

\* An alias substitution that takes the last target of a rule instead of the first.
RECURSIVE applySimpleAlias_LastTarget(_, _)
applySimpleAlias_LastTarget(spec, aliasPaths) ==
  IF aliasPaths = <<>> THEN Null
  ELSE
    LET pattern == Head(aliasPaths).pattern
        targets == Head(aliasPaths).targets
        prefix  == DropLast(pattern, 2)
        rest    == SliceFrom(spec, Len(prefix) + 1)
        next    == applySimpleAlias_LastTarget(spec, Tail(aliasPaths))
    IN  IF ~EndsWith(pattern, << "/", "*" >>) THEN next
        ELSE IF ~StartsWith(spec, prefix \o << "/" >>) THEN next
        ELSE IF targets = <<>> THEN next
        ELSE IF targets[Len(targets)] = << ".", "/", "*" >> THEN rest
        ELSE IF EndsWith(targets[Len(targets)], << "/", "*" >>)
               THEN DropLast(targets[Len(targets)], 2) \o << "/" >> \o rest
        ELSE next

RECURSIVE applySimpleAlias(_, _)
applySimpleAlias(spec, aliasPaths) ==
  IF aliasPaths = <<>> THEN Null
  ELSE
    LET pattern == Head(aliasPaths).pattern
        targets == Head(aliasPaths).targets
        prefix  == DropLast(pattern, 2)
        rest    == SliceFrom(spec, Len(prefix) + 1)
        next    == applySimpleAlias(spec, Tail(aliasPaths))
    IN  IF ~EndsWith(pattern, << "/", "*" >>) THEN next
        ELSE IF ~StartsWith(spec, prefix \o << "/" >>) THEN next
        ELSE IF targets = <<>> THEN next
        ELSE IF targets[1] = << ".", "/", "*" >> THEN rest
        ELSE IF EndsWith(targets[1], << "/", "*" >>)
               THEN DropLast(targets[1], 2) \o << "/" >> \o rest
        ELSE next

IsRelativeSpec(spec) ==
  StartsWith(spec, << ".", "/" >>) \/ StartsWith(spec, << ".", ".", "/" >>)

IsRootSpec(spec) == StartsWith(spec, << "/" >>)

\* The candidate path of a specifier, null when it has none.
candidateRelOf(importerRel, spec, aliasPaths) ==
  IF IsRelativeSpec(spec) THEN PathJoin(PathDirname(importerRel), spec)
  ELSE IF IsRootSpec(spec) THEN SliceFrom(spec, 1)
  ELSE Let(applySimpleAlias(spec, aliasPaths),
           LAMBDA aliasRel : IF Truthy(aliasRel) THEN aliasRel ELSE Null)

\* A probe order that tries the index files before the direct extensions.
tryPathsOf_IndexFirst(candidateAbsNoExt) ==
  IF PathExtname(candidateAbsNoExt) # <<>> THEN << candidateAbsNoExt >>
  ELSE [i \in 1..Len(RESOLVE_EXTENSIONS) |->
          PathJoin(candidateAbsNoExt, << "i", "n", "d", "e", "x" >> \o RESOLVE_EXTENSIONS[i])]
       \o [i \in 1..Len(RESOLVE_EXTENSIONS) |-> candidateAbsNoExt \o RESOLVE_EXTENSIONS[i]]

\* The paths probed for a candidate, in order.
tryPathsOf(candidateAbsNoExt) ==
  IF PathExtname(candidateAbsNoExt) # <<>> THEN << candidateAbsNoExt >>
  ELSE [i \in 1..Len(RESOLVE_EXTENSIONS) |-> candidateAbsNoExt \o RESOLVE_EXTENSIONS[i]]
       \o [i \in 1..Len(RESOLVE_EXTENSIONS) |->
             PathJoin(candidateAbsNoExt, << "i", "n", "d", "e", "x" >> \o RESOLVE_EXTENSIONS[i])]

\* The first probed path that exists, as a repository-relative path.
firstExisting(tryPaths) ==
  Let({ i \in 1..Len(tryPaths) : pathExists(tryPaths[i]) },
      LAMBDA hits :
        IF hits = {} THEN Null
        ELSE Let(PathRelative(projectRootAbs, tryPaths[Kth(hits, 1)]),
                 LAMBDA rel : toPosixPath(rel)))

resolveLocalImport(importerRel, spec, aliasPaths) ==
  Let(candidateRelOf(importerRel, spec, aliasPaths),
      LAMBDA candidateRel :
        IF ~Truthy(candidateRel) THEN Null
        ELSE Let(PathResolve(projectRootAbs, candidateRel),
                 LAMBDA candidateAbsNoExt :
                   Let(tryPathsOf(candidateAbsNoExt), LAMBDA tryPaths : firstExisting(tryPaths))))

externalPackageName(spec) ==
  Let(Split(spec, "/"),
      LAMBDA parts :
        IF StartsWith(spec, << "@" >>)
          THEN (IF Len(parts) >= 2 THEN parts[1] \o << "/" >> \o parts[2] ELSE spec)
        ELSE parts[1])


(***************************************************************************)
(* A source text is the record of what the TypeScript parser and the three *)
(* regular expressions find in it: its characters are its declarations,    *)
(* the specifiers as they are written between the quotes.                  *)
(***************************************************************************)
RECURSIVE Quoted(_)
Quoted(arr) ==
  IF arr = <<>> THEN <<>>
  ELSE << "'" >> \o Head(arr) \o << "'", ";" >> \o Quoted(Tail(arr))

QuotedSet(S) == Let(SortedFromSet(S), LAMBDA arr : Quoted(arr))

\* The characters of a text: every specifier and identifier it declares, and its body.
TextChars(text) ==
  QuotedSet(text.imports) \o QuotedSet(text.dynamicImports)
    \o QuotedSet(text.exportsNamed) \o text.body

\* StringLiteral.text (lines 173, 177, 206, 210): the value of the literal, its escape
\* sequences replaced by the characters they stand for.
literalText(raw) ==
  [i \in 1..Len(raw) |-> IF raw[i] = "\\u007a" THEN "z" ELSE raw[i]]

parseTsFile(text, fileName) ==
  [ importSpecifiers        |-> SortedFromSet({ literalText(raw) : raw \in text.imports }),
    dynamicImportSpecifiers |-> SortedFromSet({ literalText(raw) : raw \in text.dynamicImports }),
    exports                 |-> [ named   |-> SortedFromSet(text.exportsNamed),
                                  default |-> text.exportsDefault ] ]

normalizeSlashes(filePath) ==
  [i \in 1..Len(filePath) |-> IF filePath[i] = "\\" THEN "/" ELSE filePath[i]]

featureFromPath(filePath) ==
  LET p == normalizeSlashes(filePath) IN
  IF StartsWith(p, <<"p", "a", "g", "e", "s", "/">>) THEN "route/page"
  ELSE IF StartsWith(p, <<"c", "o", "m", "p", "o", "n", "e", "n", "t", "s", "/">>) THEN "ui/component"
  ELSE IF StartsWith(p, <<"u", "t", "i", "l", "s", "/">>) THEN "utility"
  ELSE IF StartsWith(p, <<"w", "o", "r", "k", "e", "r", "/">>) THEN "worker/backend"
  ELSE IF \/ p = <<"A", "p", "p", ".", "t", "s", "x">>
          \/ p = <<"A", "p", "p", "S", "h", "e", "l", "l", ".", "t", "s", "x">>
          \/ p = <<"i", "n", "d", "e", "x", ".", "t", "s", "x">> THEN "app/entry"
  ELSE "module"

\* base.replace(/\.(tsx|ts|jsx|js|mjs|cjs)$/, '')
stripSourceExt(base) ==
  IF \E e \in SOURCE_EXTENSIONS : EndsWith(base, e)
    THEN LET e == CHOOSE x \in SOURCE_EXTENSIONS :
                    EndsWith(base, x) /\ \A y \in SOURCE_EXTENSIONS :
                                            EndsWith(base, y) => Len(y) <= Len(x)
         IN  DropLast(base, Len(e))
  ELSE base

inferRoutesFromPath(filePath) ==
  LET p == normalizeSlashes(filePath) IN
  IF ~StartsWith(p, <<"p", "a", "g", "e", "s", "/">>) THEN <<>>
  ELSE Let(stripSourceExt(PathBasename(p)),
           LAMBDA base : IF base = <<"i", "n", "d", "e", "x">> THEN << << "/" >> >>
                         ELSE << << "/" >> \o base >>)

\* The loop "for (m of matches) { set.add(m); if (set.size >= cap) break }": a match is
\* added while the matches up to it hold at most cap distinct values.
takeDistinct_BreakLate(matches, cap) ==
  { matches[i] : i \in { k \in 1..Len(matches) :
                           Cardinality({ matches[j] : j \in 1..k }) <= cap + 1 } }

takeDistinct(matches, cap) ==
  { matches[i] : i \in { k \in 1..Len(matches) :
                           Cardinality({ matches[j] : j \in 1..k }) <= cap } }

depTags(externalDeps) ==
  UNION { (IF \/ Includes(toLowerCase(d), <<"r", "e", "a", "c", "t", "f", "l", "o", "w">>)
              \/ Includes(toLowerCase(d), <<"x", "y", "f", "l", "o", "w">>)
             THEN { <<"f", "l", "o", "w">> } ELSE {})
          \cup (IF Includes(toLowerCase(d), <<"q", "r", "c", "o", "d", "e">>)
                  THEN { <<"q", "r", "c", "o", "d", "e">> } ELSE {})
          \cup (IF Includes(toLowerCase(d), <<"j", "s", "z", "i", "p">>)
                  THEN { <<"z", "i", "p">> } ELSE {})
          : d \in Range(externalDeps) }

\* Lines 246-263: the tags of the path, of the text and of the external packages.
tagsOf(routes, lowerPath, lowerText, externalDeps) ==
  (IF routes # <<>> THEN { <<"r", "o", "u", "t", "e">> } ELSE {})
    \cup { kw \in Range(TAG_KEYWORDS) : Includes(lowerPath, kw) }
    \cup { kw \in Range(TAG_KEYWORDS) : Includes(lowerText, kw) }
    \cup depTags(externalDeps)

extractSemanticFromText(text, filePath, externalDeps) ==
  Let(<< inferRoutesFromPath(filePath), toLowerCase(filePath), toLowerCase(TextChars(text)) >>,
      LAMBDA v :
        [ feature      |-> featureFromPath(filePath),
          routes       |-> v[1],
          tags         |-> SortedFromSet(tagsOf(v[1], v[2], v[3], externalDeps)),
          apiEndpoints |-> SortedFromSet(takeDistinct(text.apiLiterals, API_CAP)),
          storageKeys  |-> SortedFromSet(takeDistinct(text.storageLiterals, STORAGE_CAP)),
          envVars      |-> SortedFromSet(takeDistinct(text.envLiterals, ENV_CAP)) ])

\* generateIndex, lines 332-337: the external packages of a freshly parsed file.
IsLocalSpec(spec, aliasPaths) ==
  IsRelativeSpec(spec) \/ IsRootSpec(spec) \/ Truthy(applySimpleAlias(spec, aliasPaths))

externalOf(rawSpecs, aliasPaths) ==
  { externalPackageName(spec) : spec \in { r \in Range(rawSpecs) : ~IsLocalSpec(r, aliasPaths) } }

\* generateIndex, lines 330-346: the record of a file that is not reused.
buildRecord(text, relPath, aliasPaths) ==
  Let(parseTsFile(text, relPath),
      LAMBDA parsed :
        Let(SortedFromSet(externalOf(parsed.importSpecifiers \o parsed.dynamicImportSpecifiers,
                                     aliasPaths)),
            LAMBDA externalDeps :
              [ path     |-> relPath,
                kind     |-> SliceFrom(PathExtname(relPath), 1),
                bytes    |-> Len(TextChars(text)),
                sha256   |-> sha256(text),
                importSpecifiers        |-> parsed.importSpecifiers,
                dynamicImportSpecifiers |-> parsed.dynamicImportSpecifiers,
                exports  |-> parsed.exports,
                semantic |-> extractSemanticFromText(text, relPath, externalDeps) ]))

\* A reuse test that forgets the schema version of the prior snapshot.
canReuse_AnySchema(prev, digest, previousIndex) ==
  /\ prev # NoFile
  /\ prev.sha256 = digest
  /\ previousIndex # NoFile
  /\ "semantic" \in DOMAIN prev

\* generateIndex, lines 319-324.
canReuse(prev, digest, previousIndex) ==
  /\ prev # NoFile
  /\ prev.sha256 = digest
  /\ previousIndex # NoFile
  /\ previousIndex.schemaVersion = SCHEMA_VERSION
  /\ "semantic" \in DOMAIN prev

\* generateIndex, lines 306-307 and 319.
previousFilesOf(previousIndex) ==
  IF previousIndex = NoFile THEN << >> ELSE previousIndex.files

prevRecord(previousIndex, relPath) ==
  IF relPath \in DOMAIN previousFilesOf(previousIndex)
    THEN previousFilesOf(previousIndex)[relPath] ELSE NoFile

\* generateIndex, lines 309-310.
gitLsFiles == tracked

\* A discovery that takes every tracked file for a source file.
sourceFilesOf_AnyExtension(trackedPaths) == trackedPaths

sourceFilesOf(trackedPaths) ==
  { p \in trackedPaths : PathExtname(p) \in SOURCE_EXTENSIONS }

absOf(relPath) == PathJoin(projectRootAbs, relPath)

\* generateIndex, lines 314-347: the reused paths and the files map.
reusedPaths(previousIndex, sourceFiles) ==
  { p \in sourceFiles :
      canReuse(prevRecord(previousIndex, p), sha256(disk[absOf(p)]), previousIndex) }

nextFilesOf(previousIndex, sourceFiles, aliasPaths) ==
  [ p \in sourceFiles |->
      IF canReuse(prevRecord(previousIndex, p), sha256(disk[absOf(p)]), previousIndex)
        THEN prevRecord(previousIndex, p)
      ELSE buildRecord(disk[absOf(p)], p, aliasPaths) ]

\* generateIndex, lines 363-376: the list one specifier is pushed to, and what is pushed.
classify(relPath, spec, aliasPaths) ==
  Let(resolveLocalImport(relPath, spec, aliasPaths),
      LAMBDA resolved :
        IF Truthy(resolved) THEN [ list |-> "local", entry |-> resolved ]
        ELSE IF IsLocalSpec(spec, aliasPaths) THEN [ list |-> "localUnresolved", entry |-> spec ]
        ELSE [ list |-> "external", entry |-> externalPackageName(spec) ])

\* The entries pushed to one list, in the order of the specifiers.
pushedTo(list, pushes) ==
  Let(SelectSeq(pushes, LAMBDA c : c.list = list),
      LAMBDA sel : [ i \in 1..Len(sel) |-> sel[i].entry ])

\* generateIndex, lines 355-386.
depsOf(file, relPath, aliasPaths) ==
  Let(file.importSpecifiers \o file.dynamicImportSpecifiers,
      LAMBDA raw :
        Let([ i \in 1..Len(raw) |-> classify(relPath, raw[i], aliasPaths) ],
            LAMBDA pushes :
              [ local           |-> SortArray(pushedTo("local", pushes)),
                localUnresolved |-> SortArray(pushedTo("localUnresolved", pushes)),
                external        |-> SortArray(pushedTo("external", pushes)) ]))

\* The number of times x occurs in arr.
countIn(x, arr) == Cardinality({ i \in 1..Len(arr) : arr[i] = x })

\* generateIndex, lines 388-391: relPath pushed once per occurrence of `to`.
RECURSIVE importersOf(_, _, _)
importersOf(to, paths, deps) ==
  IF paths = <<>> THEN <<>>
  ELSE [i \in 1..countIn(to, deps[Head(paths)].local) |-> Head(paths)]
       \o importersOf(to, Tail(paths), deps)

\* A reverse map that has an entry only for the files something imports.
reverseDepsOf_TargetsOnly(allPaths, deps) ==
  Let(SortedFromSet(allPaths),
      LAMBDA paths :
        [ q \in UNION { Range(deps[p].local) : p \in allPaths } |->
            SortArray(importersOf(q, paths, deps)) ])

\* generateIndex, lines 350-394.
reverseDepsOf(allPaths, deps) ==
  Let(SortedFromSet(allPaths),
      LAMBDA paths :
        [ q \in allPaths \cup UNION { Range(deps[p].local) : p \in allPaths } |->
            SortArray(importersOf(q, paths, deps)) ])

\* generateIndex, lines 302-412: the index built from the tree as it is now.
graphOf(nextFiles, aliasPaths) ==
  Let([ p \in DOMAIN nextFiles |-> depsOf(nextFiles[p], p, aliasPaths) ],
      LAMBDA deps : [ deps |-> deps, reverseDeps |-> reverseDepsOf(DOMAIN nextFiles, deps) ])

\* The deps of a reused file taken from the prior snapshot, the others resolved afresh.
cachedDepsOf(previousIndex, nextFiles, aliasPaths) ==
  [ p \in DOMAIN nextFiles |->
      IF p \in reusedPaths(previousIndex, DOMAIN nextFiles)
        THEN previousIndex.graph.deps[p]
      ELSE depsOf(nextFiles[p], p, aliasPaths) ]

\* An index whose graph keeps the edges of the reused files.
buildIndex_CachedGraph(previousIndex, now) ==
  Let(<< readTsconfigPaths(tsconfig), sourceFilesOf(gitLsFiles) >>,
      LAMBDA v :
        Let(nextFilesOf(previousIndex, v[2], v[1]),
            LAMBDA nextFiles :
              Let(cachedDepsOf(previousIndex, nextFiles, v[1]),
                  LAMBDA deps :
                    [ schemaVersion |-> SCHEMA_VERSION,
                      generatedAt   |-> now,
                      project       |-> [ aliasPaths |-> v[1] ],
                      counts        |-> [ trackedFiles |-> Cardinality(gitLsFiles),
                                          sourceFiles  |-> Cardinality(v[2]) ],
                      files         |-> nextFiles,
                      graph         |-> [ deps        |-> deps,
                                          reverseDeps |->
                                            reverseDepsOf(DOMAIN nextFiles, deps) ] ])))

\* generateIndex, lines 302-412: the index built from the tree as it is now.
buildIndex(previousIndex, now) ==
  Let(<< readTsconfigPaths(tsconfig), sourceFilesOf(gitLsFiles) >>,
      LAMBDA v :
        Let(nextFilesOf(previousIndex, v[2], v[1]),
            LAMBDA nextFiles :
              [ schemaVersion |-> SCHEMA_VERSION,
                generatedAt   |-> now,
                project       |-> [ aliasPaths |-> v[1] ],
                counts        |-> [ trackedFiles |-> Cardinality(gitLsFiles),
                                    sourceFiles  |-> Cardinality(v[2]) ],
                files         |-> nextFiles,
                graph         |-> graphOf(nextFiles, v[1]) ]))

\* generateIndex, lines 417-478: the digest written to index.md.
digestOf(index) ==
  LET allPaths == DOMAIN index.files
      tagsIn(p) == IF "semantic" \in DOMAIN index.files[p]
                     THEN Range(index.files[p].semantic.tags) ELSE {}
      allTags   == UNION { tagsIn(p) : p \in allPaths }
  IN  [ generatedAt   |-> index.generatedAt,
        sourceFiles   |-> index.counts.sourceFiles,
        schemaVersion |-> SCHEMA_VERSION,
        tagCounts     |-> { << t, Cardinality({ p \in allPaths : t \in tagsIn(p) }) >> : t \in allTags },
        aliasPaths    |-> index.project.aliasPaths,
        dirCounts     |-> { << toPosixPath(PathDirname(p)),
                               Cardinality({ q \in allPaths : PathDirname(q) = PathDirname(p) }) >>
                            : p \in allPaths },
        referenced    |-> { << p, IF p \in DOMAIN index.graph.reverseDeps
                                     THEN Len(index.graph.reverseDeps[p]) ELSE 0 >>
                            : p \in allPaths } ]


(***************************************************************************)
(* describe-files.mjs                                                      *)
(***************************************************************************)
\* prev.generatedAt ?? null when the prior description file has no generation time.
NullTime == 0

truncate(list, n) == SubSeq(list, 1, IF Len(list) < n THEN Len(list) ELSE n)

\* Array.from(new Set(list)): the first occurrence of each element, in order.
RECURSIVE dedupe(_, _)
dedupe(list, seen) ==
  IF list = <<>> THEN <<>>
  ELSE IF Head(list) \in seen THEN dedupe(Tail(list), seen)
  ELSE << Head(list) >> \o dedupe(Tail(list), seen \cup { Head(list) })

describeFeatureFromPath(filePath) ==
  LET p == normalizeSlashes(filePath) IN
  IF StartsWith(p, <<"p", "a", "g", "e", "s", "/">>) THEN "route/page"
  ELSE IF StartsWith(p, <<"c", "o", "m", "p", "o", "n", "e", "n", "t", "s", "/">>) THEN "ui/component"
  ELSE IF StartsWith(p, <<"u", "t", "i", "l", "s", "/">>) THEN "utility"
  ELSE IF StartsWith(p, <<"w", "o", "r", "k", "e", "r", "/">>) THEN "worker/backend"
  ELSE IF \/ p = <<"A", "p", "p", ".", "t", "s", "x">>
          \/ p = <<"A", "p", "p", "S", "h", "e", "l", "l", ".", "t", "s", "x">> THEN "app/shell"
  ELSE "module"

\* The parts the description template is filled with.
defaultDescription(filePath, file, deps) ==
  LET sem(field) == IF "semantic" \in DOMAIN file THEN file.semantic[field] ELSE <<>>
      feature    == describeFeatureFromPath(filePath)
  IN  [ feature    |-> feature,
        subject    |-> Let(stripSourceExt(PathBasename(filePath)),
                           LAMBDA baseName :
                             IF feature = "route/page"
                               THEN (IF baseName = <<"i", "n", "d", "e", "x">>
                                       THEN << "/" >> ELSE << "/" >> \o baseName)
                             ELSE baseName),
        named      |-> truncate(file.exports.named, 6),
        hasDefault |-> file.exports.default,
        external   |-> dedupe(truncate(deps.external, 6), {}),
        local      |-> truncate(deps.local, 4),
        routes     |-> truncate(sem("routes"), 3),
        tags       |-> truncate(sem("tags"), 8),
        api        |-> truncate(sem("apiEndpoints"), 2),
        storage    |-> truncate(sem("storageKeys"), 2),
        env        |-> truncate(sem("envVars"), 4) ]

\* main, line 97: the prior descriptions, or the empty default.
prevDescriptions(file) ==
  IF readJsonIfExists(file) = NoFile
    THEN [ schemaVersion |-> DESC_SCHEMA_VERSION, generatedAt |-> NullTime, files |-> << >> ]
  ELSE file

previousDescription(prev, filePath) ==
  IF filePath \in DOMAIN prev.files THEN prev.files[filePath] ELSE NoFile

\* A carry test that forgets to compare the hashes.
canCarry_AnyHash(prev, previous, file) ==
  /\ prev.schemaVersion = DESC_SCHEMA_VERSION
  /\ previous # NoFile
  /\ "description" \in DOMAIN previous

\* main, lines 111-116.
canCarry(prev, previous, file) ==
  /\ prev.schemaVersion = DESC_SCHEMA_VERSION
  /\ previous # NoFile
  /\ previous.sha256 = file.sha256
  /\ "description" \in DOMAIN previous

\* A carry that forgets the provenance.
carriedRecord_Bare(previous, prev) == previous

\* { ...previous, carriedFrom: prev.generatedAt ?? null }
carriedRecord(previous, prev) ==
  [ f \in DOMAIN previous \cup { "carriedFrom" } |->
      IF f = "carriedFrom" THEN prev.generatedAt ELSE previous[f] ]

\* main, lines 123-132.
freshRecord(filePath, file, deps) ==
  [ path        |-> filePath,
    sha256      |-> file.sha256,
    feature     |-> describeFeatureFromPath(filePath),
    description |-> defaultDescription(filePath, file, deps),
    needsReview |-> TRUE ]

\* main, lines 107-134.
carriedPaths(index, prev) ==
  { p \in DOMAIN index.files : canCarry(prev, previousDescription(prev, p), index.files[p]) }

\* main, lines 95-134.
buildDescriptions(index, prev, now) ==
  [ schemaVersion |-> DESC_SCHEMA_VERSION,
    generatedAt   |-> now,
    files         |->
      [ p \in DOMAIN index.files |->
          IF canCarry(prev, previousDescription(prev, p), index.files[p])
            THEN carriedRecord(previousDescription(prev, p), prev)
          ELSE freshRecord(p, index.files[p], index.graph.deps[p]) ] ]

\* main, lines 138-158: the table written to descriptions.md.
descDigestOf(next, carried) ==
  [ generatedAt |-> next.generatedAt,
    files       |-> Cardinality(DOMAIN next.files),
    updated     |-> Cardinality(DOMAIN next.files) - carried,
    carried     |-> carried,
    rows        |-> { [ path        |-> next.files[p].path,
                        feature     |-> next.files[p].feature,
                        description |-> next.files[p].description,
                        needsReview |-> next.files[p].needsReview ] : p \in DOMAIN next.files } ]


(***************************************************************************)
(* The trees explored                                                      *)
(***************************************************************************)
MaxEdits == 2

MaxClock == 4

EmptyText ==
  [ imports |-> {}, dynamicImports |-> {}, exportsNamed |-> {}, exportsDefault |-> FALSE,
    body |-> <<>>, apiLiterals |-> <<>>, storageLiterals |-> <<>>, envLiterals |-> <<>> ]

\* import './b' next to import('./b').
TextTwice ==
  [ EmptyText EXCEPT !.imports = { <<".", "/", "b">> },
                     !.dynamicImports = { <<".", "/", "b">> },
                     !.exportsNamed = { <<"u", "s", "e", "f", "l", "o", "w">> } ]

\* One specifier of every shape; './b' and './b.ts' name one file, 'lib' and 'lib/x' one package.
TextMixed ==
  [ EmptyText EXCEPT !.imports = { <<".", "/", "b">>, <<".", "/", "b", ".", "t", "s">>,
                                   <<"@", "a", "p", "p", "/", "b">>, <<"@", "a", "p", "p", "/">>,
                                   <<"l", "i", "b", "/", "x">> },
                     !.dynamicImports = { <<"l", "i", "b">>, <<"/", "b">>,
                                          <<"@", "s", "/", "p", "/", "q">> },
                     !.exportsDefault = TRUE ]

Texts == { EmptyText, TextTwice, TextMixed }

FileA == <<"a", ".", "t", "s">>
FileB == <<"b", ".", "t", "s">>

\* A tracked file that is no source file.
FileC == <<"c", ".", "c", "s", "s">>

RelPaths == { FileA, FileB }

AbsPaths == { absOf(p) : p \in RelPaths }

\* The texts a file is given: a.ts is the importer, b.ts its target.
TextsOf(f) == IF f = absOf(FileA) THEN Texts ELSE { EmptyText }

NoTsconfig == [ present |-> FALSE, valid |-> FALSE, paths |-> <<>> ]

\* { "compilerOptions": { "paths": { "@app/*": ["./*", "lib/*"] } } }
AppTsconfig ==
  [ present |-> TRUE,
    valid   |-> TRUE,
    paths   |-> << [ pattern |-> <<"@", "a", "p", "p", "/", "*">>,
                     targets |-> << <<".", "/", "*">>, <<"l", "i", "b", "/", "*">> >> ] >> ]

\* A tsconfig.json with the same rule whose text is not JSON.
MalformedTsconfig == [ AppTsconfig EXCEPT !.valid = FALSE ]

Tsconfigs == { NoTsconfig, AppTsconfig, MalformedTsconfig }

\* The description a person writes in place of the generated one.
ReviewedDescription == [ feature |-> "reviewed" ]

withoutSemantic(record) == [ f \in DOMAIN record \ { "semantic" } |-> record[f] ]

\* The index.json an earlier release leaves for the present tree: one written under the
\* previous schema version, or one of the current version whose records carry no
\* semantic object.
LegacyIndexes ==
  Let(buildIndex(NoFile, 0),
      LAMBDA full :
        { [ full EXCEPT !.schemaVersion = SCHEMA_VERSION - 1 ],
          [ full EXCEPT !.files = [ p \in DOMAIN full.files |-> withoutSemantic(full.files[p]) ] ] })

Init ==
  /\ \E ta \in Texts \ { EmptyText }, hasB \in BOOLEAN :
       /\ disk = [ f \in { absOf(FileA), absOf(FileC) }
                           \cup (IF hasB THEN { absOf(FileB) } ELSE {}) |->
                     IF f = absOf(FileA) THEN ta ELSE EmptyText ]
       /\ tracked = { FileA, FileC } \cup (IF hasB THEN { FileB } ELSE {})
  /\ tsconfig \in Tsconfigs
  /\ indexJson = NoFile
  /\ indexMd = NoFile
  /\ descJson = NoFile
  /\ descMd = NoFile
  /\ clock = 1
  /\ pc = "idle"
  /\ driver = "shell"
  /\ status = 0
  /\ ixrun = NoRun
  /\ dsrun = NoRun
  /\ before = NoRun
  /\ quiet = FALSE
  /\ edits = 0
  /\ call = NoRun
  /\ ret = NoRun

(***************************************************************************)
(* Edits to the tree between runs                                          *)
(***************************************************************************)
Edited ==
  /\ pc = "idle"
  /\ edits < MaxEdits
  /\ edits' = edits + 1
  /\ quiet' = FALSE
  /\ UNCHANGED << clock, pc, driver, status, ixrun, dsrun, before, call, ret >>

Unreadable == { p \in sourceFilesOf(tracked) : absOf(p) \notin DOMAIN disk }

\* The tree was indexed by an earlier release of the tool before the first run.
LegacyRun ==
  /\ pc = "idle"
  /\ clock = 1
  /\ edits = 0
  /\ indexJson = NoFile
  /\ Unreadable = {}
  /\ \E legacy \in LegacyIndexes :
       /\ indexJson' = legacy
       /\ indexMd' = digestOf(legacy)
  /\ UNCHANGED << envVars, descJson, descMd, clock, pc, driver, status, ixrun, dsrun,
                  before, quiet, edits, call, ret >>

\* The descriptions.json an earlier release left next to its index.json: one written
\* under the previous description schema version.
LegacyDescribe ==
  /\ pc = "idle"
  /\ clock = 1
  /\ edits = 0
  /\ readJsonIfExists(indexJson) # NoFile
  /\ descJson = NoFile
  /\ \E legacy \in { [ buildDescriptions(indexJson, prevDescriptions(NoFile), 0)
                          EXCEPT !.schemaVersion = DESC_SCHEMA_VERSION - 1 ] } :
       /\ descJson' = legacy
       /\ descMd' = descDigestOf(legacy, 0)
  /\ UNCHANGED << envVars, indexJson, indexMd, clock, pc, driver, status, ixrun, dsrun,
                  before, quiet, edits, call, ret >>

WriteFile(f, text) ==
  /\ Edited
  /\ IF f \in DOMAIN disk THEN disk[f] # text ELSE TRUE
  /\ disk' = [ g \in DOMAIN disk \cup { f } |-> IF g = f THEN text ELSE disk[g] ]
  /\ UNCHANGED << tracked, tsconfig, indexJson, indexMd, descJson, descMd >>

DeleteFile(f) ==
  /\ Edited
  /\ f \in DOMAIN disk
  /\ disk' = [ g \in DOMAIN disk \ { f } |-> disk[g] ]
  /\ UNCHANGED << tracked, tsconfig, indexJson, indexMd, descJson, descMd >>

GitAdd(p) ==
  /\ Edited
  /\ p \notin tracked
  /\ absOf(p) \in DOMAIN disk
  /\ tracked' = tracked \cup { p }
  /\ UNCHANGED << disk, tsconfig, indexJson, indexMd, descJson, descMd >>

GitRm(p) ==
  /\ Edited
  /\ p \in tracked
  /\ tracked' = tracked \ { p }
  /\ UNCHANGED << disk, tsconfig, indexJson, indexMd, descJson, descMd >>

SetTsconfig(cfg) ==
  /\ Edited
  /\ cfg # tsconfig
  /\ tsconfig' = cfg
  /\ UNCHANGED << disk, tracked, indexJson, indexMd, descJson, descMd >>

\* Someone rewrites one description in descriptions.json and clears its flag.
Review(p) ==
  /\ Edited
  /\ descJson # NoFile /\ descJson # Partial
  /\ p \in DOMAIN descJson.files
  /\ descJson.files[p].needsReview
  /\ descJson' = [ descJson EXCEPT !.files[p].needsReview = FALSE,
                                   !.files[p].description = ReviewedDescription ]
  /\ UNCHANGED << disk, tracked, tsconfig, indexJson, indexMd, descMd >>

(***************************************************************************)
(* generate-index.mjs, step by step                                        *)
(***************************************************************************)
Outputs == [ indexJson |-> indexJson, indexMd |-> indexMd,
             descJson |-> descJson, descMd |-> descMd, quiet |-> quiet ]

\* A script is started: alone from the shell, or the first child of sync-repo.
Started(d) ==
  /\ pc = "idle"
  /\ clock <= MaxClock
  /\ driver' = d
  /\ before' = Outputs
  /\ quiet' = FALSE

\* Lines 302-412: everything is read and the index is built in memory.
IndexBuild(d) ==
  /\ Started(d)
  /\ Unreadable = {}
  /\ \E previousIndex \in { readJsonIfExists(indexJson) } :
       ixrun' = [ previousIndex |-> previousIndex,
                  index         |-> buildIndex(previousIndex, clock),
                  reused        |-> reusedPaths(previousIndex, sourceFilesOf(tracked)) ]
  /\ clock' = clock + 1
  /\ pc' = "ix_write_json"
  /\ UNCHANGED << envVars, outVars, status, dsrun, edits, call, ret >>

\* An abort that has already opened index.json for writing.
IndexAbort_AfterOpen(d) ==
  /\ Started(d)
  /\ Unreadable # {}
  /\ ixrun' = NoRun
  /\ status' = 1
  /\ pc' = "ix_exit"
  /\ indexJson' = Partial
  /\ UNCHANGED << envVars, indexMd, descJson, descMd, clock, dsrun, edits, call, ret >>

\* Line 316: a tracked source file cannot be read.
IndexAbort(d) ==
  /\ Started(d)
  /\ Unreadable # {}
  /\ ixrun' = NoRun
  /\ status' = 1
  /\ pc' = "ix_exit"
  /\ UNCHANGED << envVars, outVars, clock, dsrun, edits, call, ret >>

\* Line 415.
IndexWriteJson ==
  /\ pc = "ix_write_json"
  /\ indexJson' = ixrun.index
  /\ pc' = "ix_write_md"
  /\ UNCHANGED << envVars, indexMd, descJson, descMd, clock, driver, status, ixrun, dsrun,
                  before, quiet, edits, call, ret >>

\* Line 415 throws: the file is left as it was, or truncated.
IndexWriteJsonFail ==
  /\ pc = "ix_write_json"
  /\ indexJson' \in { indexJson, Partial }
  /\ status' = 1
  /\ pc' = "ix_exit"
  /\ UNCHANGED << envVars, indexMd, descJson, descMd, clock, driver, ixrun, dsrun,
                  before, quiet, edits, call, ret >>

\* Lines 478-480.
IndexWriteMd ==
  /\ pc = "ix_write_md"
  /\ indexMd' = digestOf(ixrun.index)
  /\ status' = 0
  /\ pc' = "ix_exit"
  /\ UNCHANGED << envVars, indexJson, descJson, descMd, clock, driver, ixrun, dsrun,
                  before, quiet, edits, call, ret >>

\* Line 478 throws.
IndexWriteMdFail ==
  /\ pc = "ix_write_md"
  /\ indexMd' \in { indexMd, Partial }
  /\ status' = 1
  /\ pc' = "ix_exit"
  /\ UNCHANGED << envVars, indexJson, descJson, descMd, clock, driver, ixrun, dsrun,
                  before, quiet, edits, call, ret >>

(***************************************************************************)
(* sync-repo.mjs                                                           *)
(***************************************************************************)
\* run(), line 8: a child that failed ends sync-repo with the child's status;
\* a script started alone just ends.
ProcessExit ==
  /\ pc \in { "ix_exit", "ds_exit" }
  /\ driver = "shell" \/ status # 0 \/ pc = "ds_exit"
  /\ pc' = "idle"
  /\ quiet' = (driver = "sync" /\ pc = "ds_exit" /\ status = 0)
  /\ ixrun' = NoRun
  /\ dsrun' = NoRun
  /\ before' = NoRun
  /\ UNCHANGED << envVars, outVars, clock, driver, status, edits, call, ret >>

\* A driver that starts the description child whatever the index child's status.
SyncSpawnDescribe_AnyStatus ==
  /\ pc = "ix_exit"
  /\ driver = "sync"
  /\ pc' = "ds_start"
  /\ ixrun' = NoRun
  /\ UNCHANGED << envVars, outVars, clock, driver, status, dsrun, before, quiet, edits, call, ret >>

\* Line 15: the index child exited 0, the description child is started.
SyncSpawnDescribe ==
  /\ pc = "ix_exit"
  /\ driver = "sync"
  /\ status = 0
  /\ pc' = "ds_start"
  /\ ixrun' = NoRun
  /\ UNCHANGED << envVars, outVars, clock, driver, status, dsrun, before, quiet, edits, call, ret >>

(***************************************************************************)
(* describe-files.mjs, step by step                                        *)
(***************************************************************************)
DescribeStarted ==
  \/ pc = "ds_start" /\ UNCHANGED << driver, before, quiet >>
  \/ Started("shell")

\* Lines 96-134.
DescribeBuild ==
  /\ DescribeStarted
  /\ clock <= MaxClock
  /\ readJsonIfExists(indexJson) # NoFile
  /\ \E prev \in { prevDescriptions(descJson) } :
       dsrun' = [ index   |-> indexJson,
                  prev    |-> prev,
                  next    |-> buildDescriptions(indexJson, prev, clock),
                  carried |-> carriedPaths(indexJson, prev) ]
  /\ clock' = clock + 1
  /\ pc' = "ds_write_json"
  /\ UNCHANGED << envVars, outVars, status, ixrun, edits, call, ret >>

\* Line 96 throws: index.json is missing or is not JSON.
DescribeAbort ==
  /\ DescribeStarted
  /\ readJsonIfExists(indexJson) = NoFile
  /\ dsrun' = NoRun
  /\ status' = 1
  /\ pc' = "ds_exit"
  /\ UNCHANGED << envVars, outVars, clock, ixrun, edits, call, ret >>

\* Line 136.
DescribeWriteJson ==
  /\ pc = "ds_write_json"
  /\ descJson' = dsrun.next
  /\ pc' = "ds_write_md"
  /\ UNCHANGED << envVars, indexJson, indexMd, descMd, clock, driver, status, ixrun, dsrun,
                  before, quiet, edits, call, ret >>

DescribeWriteJsonFail ==
  /\ pc = "ds_write_json"
  /\ descJson' \in { descJson, Partial }
  /\ status' = 1
  /\ pc' = "ds_exit"
  /\ UNCHANGED << envVars, indexJson, indexMd, descMd, clock, driver, ixrun, dsrun,
                  before, quiet, edits, call, ret >>

\* Lines 158-161.
DescribeWriteMd ==
  /\ pc = "ds_write_md"
  /\ descMd' = descDigestOf(dsrun.next, Cardinality(dsrun.carried))
  /\ status' = 0
  /\ pc' = "ds_exit"
  /\ UNCHANGED << envVars, indexJson, indexMd, descJson, clock, driver, ixrun, dsrun,
                  before, quiet, edits, call, ret >>

DescribeWriteMdFail ==
  /\ pc = "ds_write_md"
  /\ descMd' \in { descMd, Partial }
  /\ status' = 1
  /\ pc' = "ds_exit"
  /\ UNCHANGED << envVars, indexJson, indexMd, descJson, clock, driver, ixrun, dsrun,
                  before, quiet, edits, call, ret >>

Next ==
  \/ LegacyRun
  \/ LegacyDescribe
  \/ \E f \in AbsPaths : \E text \in TextsOf(f) : WriteFile(f, text)
  \/ \E f \in AbsPaths : DeleteFile(f)
  \/ \E p \in RelPaths : GitAdd(p)
  \/ \E p \in RelPaths : GitRm(p)
  \/ \E cfg \in Tsconfigs : SetTsconfig(cfg)
  \/ \E p \in RelPaths : Review(p)
  \/ \E d \in { "shell", "sync" } : IndexBuild(d)
  \/ \E d \in { "shell", "sync" } : IndexAbort(d)
  \/ IndexWriteJson
  \/ IndexWriteMd
  \/ ProcessExit
  \/ SyncSpawnDescribe
  \/ DescribeBuild
  \/ DescribeAbort
  \/ DescribeWriteJson
  \/ DescribeWriteMd

Spec == Init /\ [][Next]_vars


(***************************************************************************)
(* The index script alone: generate-index.mjs reads the tree, tsconfig.json *)
(* and index.json and nothing the description pass writes.                 *)
(***************************************************************************)
NextIndex ==
  \/ LegacyRun
  \/ \E f \in AbsPaths : \E text \in TextsOf(f) : WriteFile(f, text)
  \/ \E f \in AbsPaths : DeleteFile(f)
  \/ \E p \in RelPaths : GitAdd(p)
  \/ \E p \in RelPaths : GitRm(p)
  \/ \E cfg \in Tsconfigs : SetTsconfig(cfg)
  \/ IndexBuild("shell")
  \/ IndexAbort("shell")
  \/ IndexWriteJson
  \/ IndexWriteMd
  \/ ProcessExit

SpecIndex == Init /\ [][NextIndex]_vars

(***************************************************************************)
(* sync-repo and the description pass over a tree whose files are edited   *)
(* and whose descriptions are reviewed between runs.                       *)
(***************************************************************************)
NextSync ==
  \/ LegacyRun
  \/ LegacyDescribe
  \/ \E text \in Texts : WriteFile(absOf(FileA), text)
  \/ \E p \in RelPaths : Review(p)
  \/ IndexBuild("sync")
  \/ IndexWriteJson
  \/ IndexWriteMd
  \/ SyncSpawnDescribe
  \/ DescribeBuild
  \/ DescribeAbort
  \/ DescribeWriteJson
  \/ DescribeWriteMd
  \/ ProcessExit

SpecSync == Init /\ [][NextSync]_vars


(***************************************************************************)
(* sync-repo with failing system calls: git ls-files exits non-zero, a     *)
(* write throws and leaves the file as it was or truncated.                *)
(***************************************************************************)
\* Line 309: execFileSync throws.
IndexGitFails(d) ==
  /\ Started(d)
  /\ ixrun' = NoRun
  /\ status' = 1
  /\ pc' = "ix_exit"
  /\ UNCHANGED << envVars, outVars, clock, dsrun, edits, call, ret >>

NextFaults ==
  \/ \E f \in AbsPaths : DeleteFile(f)
  \/ IndexBuild("sync")
  \/ IndexAbort("sync")
  \/ IndexWriteJson
  \/ IndexWriteMd
  \/ SyncSpawnDescribe
  \/ DescribeBuild
  \/ DescribeAbort
  \/ DescribeWriteJson
  \/ DescribeWriteMd
  \/ ProcessExit
  \/ IndexGitFails("sync")
  \/ IndexWriteJsonFail
  \/ IndexWriteMdFail
  \/ DescribeWriteJsonFail
  \/ DescribeWriteMdFail

SpecFaults == Init /\ [][NextFaults]_vars

(***************************************************************************)
(* resolveLocalImport applied alone to every tree over a few paths         *)
(***************************************************************************)
MaxProbed == 6

\* Files the probes of './b', './b.js' and '@app/b' can hit, in no particular order.
ProbedFiles ==
  << <<"/", "r", "/", "b", ".", "j", "s">>,
     <<"/", "r", "/", "b", "/", "i", "n", "d", "e", "x", ".", "t", "s">>,
     <<"/", "r", "/", "b", ".", "t", "s">>,
     <<"/", "r", "/", "b", "/", "i", "n", "d", "e", "x", ".", "c", "s", "s">>,
     <<"/", "r", "/", "b", ".", "c", "s", "s">>,
     <<"/", "r", "/", "l", "i", "b", "/", "b", ".", "t", "s">>,
     <<"/", "r", "/", "b", ".", "j", "s", "/", "i", "n", "d", "e", "x", ".", "t", "s">>,
     <<"/", "r", "/", "b", "/", "i", "n", "d", "e", "x", ".", "j", "s", "o", "n">> >>

ResolveSpecs ==
  { <<".", "/", "b">>, <<".", "/", "b", ".", "j", "s">>, <<"/", "b">>,
    <<"@", "a", "p", "p", "/", "b">>, <<"l", "i", "b", "/", "b">> }

InitResolve ==
  /\ \E S \in SUBSET { ProbedFiles[i] : i \in 1..(IF MaxProbed < Len(ProbedFiles)
                                                   THEN MaxProbed ELSE Len(ProbedFiles)) } :
       disk = [ f \in S |-> EmptyText ]
  /\ tracked = { FileA }
  /\ tsconfig \in Tsconfigs
  /\ call \in [ importerRel : { FileA }, spec : ResolveSpecs ]
  /\ ret = NoRun
  /\ pc = "call"
  /\ indexJson = NoFile /\ indexMd = NoFile /\ descJson = NoFile /\ descMd = NoFile
  /\ clock = 1 /\ driver = "shell" /\ status = 0
  /\ ixrun = NoRun /\ dsrun = NoRun /\ before = NoRun /\ quiet = FALSE /\ edits = 0

Resolve ==
  /\ pc = "call"
  /\ ret' = [ value |-> resolveLocalImport(call.importerRel, call.spec,
                                           readTsconfigPaths(tsconfig)) ]
  /\ pc' = "return"
  /\ UNCHANGED << envVars, outVars, clock, driver, status, ixrun, dsrun, before, quiet,
                  edits, call >>

SpecResolve == InitResolve /\ [][Resolve]_vars

(***************************************************************************)
(* applySimpleAlias applied alone to every short list of alias rules       *)
(***************************************************************************)
MaxRules == 2

AliasRules ==
  { [ pattern |-> <<"@", "a", "p", "p", "/", "*">>,
      targets |-> << <<".", "/", "*">>, <<"l", "i", "b", "/", "*">> >> ],
    [ pattern |-> <<"@", "a", "p", "p", "/", "*">>,
      targets |-> << <<"s", "r", "c", "/", "*">>, <<".", "/", "*">> >> ],
    [ pattern |-> <<"@", "a", "p", "p", "/", "*">>,
      targets |-> << <<"m", "a", "i", "n", ".", "t", "s">> >> ],
    [ pattern |-> <<"@", "a", "p", "p", "/", "*">>, targets |-> <<>> ],
    [ pattern |-> <<"@", "a", "p", "p", "/", "b", "/", "*">>,
      targets |-> << <<"l", "i", "b", "/", "*">> >> ],
    [ pattern |-> <<"@", "a", "p", "p", "/", "b">>,
      targets |-> << <<"x", "/", "*">> >> ] }

AliasSpecs ==
  { <<"@", "a", "p", "p", "/", "b", "/", "c">>, <<"@", "a", "p", "p", "/", "b">>,
    <<"@", "a", "p", "p", "/">>, <<"@", "a", "p", "p">>, <<"l", "i", "b", "/", "b">> }

\* Object.entries of "paths": no pattern occurs twice.
AliasConfigs ==
  { cfg \in UNION { [ 1..n -> AliasRules ] : n \in 0..MaxRules } :
      \A i, j \in DOMAIN cfg : i # j => cfg[i].pattern # cfg[j].pattern }

InitAlias ==
  /\ \E cfg \in AliasConfigs : tsconfig = [ present |-> TRUE, valid |-> TRUE, paths |-> cfg ]
  /\ call \in [ spec : AliasSpecs ]
  /\ ret = NoRun
  /\ pc = "call"
  /\ disk = << >> /\ tracked = {}
  /\ indexJson = NoFile /\ indexMd = NoFile /\ descJson = NoFile /\ descMd = NoFile
  /\ clock = 1 /\ driver = "shell" /\ status = 0
  /\ ixrun = NoRun /\ dsrun = NoRun /\ before = NoRun /\ quiet = FALSE /\ edits = 0

ApplyAlias ==
  /\ pc = "call"
  /\ ret' = [ value |-> applySimpleAlias(call.spec, readTsconfigPaths(tsconfig)) ]
  /\ pc' = "return"
  /\ UNCHANGED << envVars, outVars, clock, driver, status, ixrun, dsrun, before, quiet,
                  edits, call >>

SpecAlias == InitAlias /\ [][ApplyAlias]_vars


(***************************************************************************)
(* Incremental index runs over a change of the alias configuration         *)
(***************************************************************************)
\* import 'jszip/x'
TextZip ==
  [ EmptyText EXCEPT !.imports = { <<"j", "s", "z", "i", "p", "/", "x">> } ]

\* import 'js\u007aip/x': the same specifier, one character written as an escape.
TextZipEscaped ==
  [ EmptyText EXCEPT !.imports = { <<"j", "s", "\\u007a", "i", "p", "/", "x">> } ]

ReuseTexts == { EmptyText, TextZip, TextZipEscaped }

\* "paths": { "jszip/*": ["./*"] }
ZipTsconfig ==
  [ present |-> TRUE, valid |-> TRUE,
    paths   |-> << [ pattern |-> <<"j", "s", "z", "i", "p", "/", "*">>,
                     targets |-> << <<".", "/", "*">> >> ] >> ]

ReuseTsconfigs == { NoTsconfig, ZipTsconfig }

InitReuse ==
  /\ \E ta \in ReuseTexts : disk = [ f \in { absOf(FileA) } |-> ta ]
  /\ tracked = { FileA }
  /\ tsconfig \in ReuseTsconfigs
  /\ indexJson = NoFile /\ indexMd = NoFile /\ descJson = NoFile /\ descMd = NoFile
  /\ clock = 1 /\ pc = "idle" /\ driver = "shell" /\ status = 0
  /\ ixrun = NoRun /\ dsrun = NoRun /\ before = NoRun /\ quiet = FALSE /\ edits = 0
  /\ call = NoRun /\ ret = NoRun

NextReuse ==
  \/ \E text \in ReuseTexts : WriteFile(absOf(FileA), text)
  \/ \E cfg \in ReuseTsconfigs : SetTsconfig(cfg)
  \/ IndexBuild("shell")
  \/ IndexWriteJson
  \/ IndexWriteMd
  \/ ProcessExit

SpecReuse == InitReuse /\ [][NextReuse]_vars

(***************************************************************************)
(* sync-repo over a tree of one file, for every shape of its path          *)
(***************************************************************************)
ShapeDirs ==
  { <<>>, <<"p", "a", "g", "e", "s", "/">>, <<"p", "a", "g", "e", "s", "/", "x", "/">>,
    <<"c", "o", "m", "p", "o", "n", "e", "n", "t", "s", "/">>, <<"u", "t", "i", "l", "s", "/">>,
    <<"w", "o", "r", "k", "e", "r", "/">>, <<"s", "r", "c", "/">> }

ShapeNames ==
  { <<"A", "p", "p", ".", "t", "s", "x">>,
    <<"A", "p", "p", "S", "h", "e", "l", "l", ".", "t", "s", "x">>,
    <<"i", "n", "d", "e", "x", ".", "t", "s", "x">>, <<"i", "n", "d", "e", "x", ".", "t", "s">>,
    <<"A", "p", "p", ".", "t", "s">>, <<"m", "a", "i", "n", ".", "t", "s", "x">>,
    <<"w", "o", "r", "k", "e", "r", ".", "t", "s">>, FileA }

ShapePaths == { dir \o name : dir \in ShapeDirs, name \in ShapeNames }

InitShapes ==
  /\ \E p \in ShapePaths :
       /\ disk = [ f \in { absOf(p) } |-> TextTwice ]
       /\ tracked = { p }
  /\ tsconfig = NoTsconfig
  /\ indexJson = NoFile /\ indexMd = NoFile /\ descJson = NoFile /\ descMd = NoFile
  /\ clock = 1 /\ pc = "idle" /\ driver = "shell" /\ status = 0
  /\ ixrun = NoRun /\ dsrun = NoRun /\ before = NoRun /\ quiet = FALSE /\ edits = 0
  /\ call = NoRun /\ ret = NoRun

NextShapes ==
  \/ IndexBuild("sync")
  \/ IndexWriteJson
  \/ IndexWriteMd
  \/ SyncSpawnDescribe
  \/ DescribeBuild
  \/ DescribeWriteJson
  \/ DescribeWriteMd
  \/ ProcessExit

SpecShapes == InitShapes /\ [][NextShapes]_vars

(***************************************************************************)
(* resolveLocalImport applied to specifiers that climb, with files next to *)
(* the repository directory as well as inside it                           *)
(***************************************************************************)
\* Files inside the repository (/r) and beside it.
ClimbFiles ==
  { <<"/", "r", "/", "b", ".", "t", "s">>,
    <<"/", "r", "/", "l", "i", "b", "/", "b", ".", "t", "s">>,
    <<"/", "b", ".", "t", "s">>,
    <<"/", "l", "i", "b", "/", "b", ".", "t", "s">> }

ClimbImporters == { FileA, <<"l", "i", "b", "/", "a", ".", "t", "s">> }

ClimbSpecs ==
  { <<".", "/", "b">>, <<".", ".", "/", "b">>, <<".", ".", "/", ".", ".", "/", "b">>,
    <<".", ".", "/", "l", "i", "b", "/", "b">>, <<"/", ".", ".", "/", "b">>,
    <<"@", "u", "p", "/", "b">> }

\* "paths": { "@up/*": ["../*"] }
UpTsconfig ==
  [ present |-> TRUE, valid |-> TRUE,
    paths   |-> << [ pattern |-> <<"@", "u", "p", "/", "*">>,
                     targets |-> << <<".", ".", "/", "*">> >> ] >> ]

InitClimb ==
  /\ \E S \in SUBSET ClimbFiles : disk = [ f \in S |-> EmptyText ]
  /\ tracked = ClimbImporters
  /\ tsconfig \in { NoTsconfig, UpTsconfig }
  /\ call \in [ importerRel : ClimbImporters, spec : ClimbSpecs ]
  /\ ret = NoRun
  /\ pc = "call"
  /\ indexJson = NoFile /\ indexMd = NoFile /\ descJson = NoFile /\ descMd = NoFile
  /\ clock = 1 /\ driver = "shell" /\ status = 0
  /\ ixrun = NoRun /\ dsrun = NoRun /\ before = NoRun /\ quiet = FALSE /\ edits = 0

SpecClimb == InitClimb /\ [][Resolve]_vars

(***************************************************************************)
(* extractSemanticFromText applied alone to texts with many literals       *)
(***************************************************************************)
\* The longest texts hold this many distinct literals more than the cap of their kind.
MaxOver == 15

Digits == << "0", "1", "2", "3", "4", "5", "6", "7", "8", "9" >>

Num(i) == << Digits[(i \div 10) + 1], Digits[(i % 10) + 1] >>

ExtractKinds == { "api", "storage", "env" }

capOf(kind) ==
  IF kind = "api" THEN API_CAP ELSE IF kind = "storage" THEN STORAGE_CAP ELSE ENV_CAP

\* The i-th literal of a kind: '/api/07', localStorage.getItem('k07'), process.env.V07.
Literal(kind, i) ==
  IF kind = "api" THEN <<"/", "a", "p", "i", "/">> \o Num(i)
  ELSE IF kind = "storage" THEN <<"k">> \o Num(i)
  ELSE <<"V">> \o Num(i)

MatchOrders == { "ascending", "descending", "doubled", "echoed" }

\* The matches of the regular expression in text order, over n distinct literals.
matchesOf(kind, n, order) ==
  IF order = "ascending" THEN [ i \in 1..n |-> Literal(kind, i) ]
  ELSE IF order = "descending" THEN [ i \in 1..n |-> Literal(kind, n + 1 - i) ]
  ELSE IF order = "doubled" THEN [ i \in 1..(2 * n) |-> Literal(kind, (i + 1) \div 2) ]
  ELSE [ i \in 1..(2 * n) |-> Literal(kind, (i % n) + 1) ]

textOf(kind, matches) ==
  IF kind = "api" THEN [ EmptyText EXCEPT !.apiLiterals = matches ]
  ELSE IF kind = "storage" THEN [ EmptyText EXCEPT !.storageLiterals = matches ]
  ELSE [ EmptyText EXCEPT !.envLiterals = matches ]

InitExtract ==
  /\ \E kind \in ExtractKinds : \E n \in 0..(capOf(kind) + MaxOver) : \E order \in MatchOrders :
       call = [ kind |-> kind, text |-> textOf(kind, matchesOf(kind, n, order)),
                filePath |-> FileA ]
  /\ ret = NoRun
  /\ pc = "call"
  /\ disk = << >> /\ tracked = {} /\ tsconfig = NoTsconfig
  /\ indexJson = NoFile /\ indexMd = NoFile /\ descJson = NoFile /\ descMd = NoFile
  /\ clock = 1 /\ driver = "shell" /\ status = 0
  /\ ixrun = NoRun /\ dsrun = NoRun /\ before = NoRun /\ quiet = FALSE /\ edits = 0

Extract ==
  /\ pc = "call"
  /\ ret' = [ value |-> extractSemanticFromText(call.text, call.filePath, <<>>) ]
  /\ pc' = "return"
  /\ UNCHANGED << envVars, outVars, clock, driver, status, ixrun, dsrun, before, quiet,
                  edits, call >>

SpecExtract == InitExtract /\ [][Extract]_vars


(***************************************************************************)
(* Properties                                                              *)
(***************************************************************************)
\* The index run has written both files and is about to exit 0.
IndexCompleted == pc = "ix_exit" /\ status = 0

\* C1: after a completed index run, Q is in deps[P].local exactly when P is in
\* reverseDeps[Q], and every tracked file of a recognized extension has a reverseDeps
\* entry, possibly empty.
C1_ReverseEdgeSymmetry ==
  IndexCompleted =>
    LET deps        == indexJson.graph.deps
        reverseDeps == indexJson.graph.reverseDeps
    IN  /\ \A P \in DOMAIN deps : \A Q \in Range(deps[P].local) :
             Q \in DOMAIN reverseDeps /\ P \in Range(reverseDeps[Q])
        /\ \A Q \in DOMAIN reverseDeps : \A P \in Range(reverseDeps[Q]) :
             P \in DOMAIN deps /\ Q \in Range(deps[P].local)
        /\ sourceFilesOf(tracked) \subseteq DOMAIN reverseDeps

\* A completed run whose graph has an edge, and a discovered file nothing imports.
C1_Witness ==
  /\ IndexCompleted
  /\ \E Q \in DOMAIN indexJson.graph.reverseDeps : indexJson.graph.reverseDeps[Q] # <<>>
  /\ \E P \in sourceFilesOf(tracked) :
       P \in DOMAIN indexJson.graph.reverseDeps /\ indexJson.graph.reverseDeps[P] = <<>>

\* C2: generateIndex puts a file's prior record into the new snapshot unchanged exactly
\* when the stored sha256 equals the hash of the current text, the prior snapshot has the
\* current SCHEMA_VERSION and the prior record has a semantic object; every other record
\* is rebuilt from the current text, and a prior snapshot of another schema version
\* carries no record at all.
C2_ReuseIffUnchanged ==
  ixrun # NoRun =>
    LET previousIndex == ixrun.previousIndex IN
    /\ \A p \in DOMAIN ixrun.index.files :
         LET text      == disk[absOf(p)]
             unchanged == /\ previousIndex # NoFile
                          /\ p \in DOMAIN previousIndex.files
                          /\ previousIndex.files[p].sha256 = sha256(text)
                          /\ previousIndex.schemaVersion = SCHEMA_VERSION
                          /\ "semantic" \in DOMAIN previousIndex.files[p]
         IN  /\ p \in ixrun.reused <=> unchanged
             /\ ixrun.index.files[p] =
                  IF unchanged THEN previousIndex.files[p]
                  ELSE buildRecord(text, p, readTsconfigPaths(tsconfig))
    /\ (previousIndex # NoFile /\ previousIndex.schemaVersion # SCHEMA_VERSION)
         => ixrun.reused = {}

\* One run that carries the record of an unchanged file and rebuilds the record of a
\* file whose text changed since the prior snapshot.
C2_Witness ==
  /\ ixrun # NoRun
  /\ ixrun.previousIndex # NoFile
  /\ ixrun.reused # {}
  /\ \E p \in DOMAIN ixrun.index.files \ ixrun.reused :
       /\ p \in DOMAIN ixrun.previousIndex.files
       /\ ixrun.previousIndex.files[p].sha256 # sha256(disk[absOf(p)])

\* The four output files are as they were when the current run started.
OutputsUntouched ==
  /\ indexJson = before.indexJson
  /\ indexMd = before.indexMd
  /\ descJson = before.descJson
  /\ descMd = before.descMd

\* The current run has written all the files it writes: a sync-repo run all four, an
\* index run started alone its two.
RunCompleted ==
  \/ pc = "ds_exit" /\ status = 0
  \/ pc = "ix_exit" /\ status = 0 /\ driver = "shell"

\* C3: at every point of any run, a run that fails at any step included, the persisted
\* files are all the prior run's version or all the new run's version, never a mix and
\* never a partially written file.
C3_AtomicReplacement ==
  /\ Partial \notin { indexJson, indexMd, descJson, descMd }
  /\ before # NoRun => OutputsUntouched \/ RunCompleted

\* sync-repo has completed a run that started right after a completed sync-repo run,
\* nothing having been edited in between.
SecondRunCompleted ==
  /\ pc = "ds_exit" /\ driver = "sync" /\ status = 0
  /\ before # NoRun
  /\ before.quiet

withoutTime(file) == [ file EXCEPT !.generatedAt = NullTime ]

withoutProvenance(record) == [ f \in DOMAIN record \ { "carriedFrom" } |-> record[f] ]

\* The second run's index.json and index.md equal the first run's, generation time apart.
SameIndexOutput ==
  /\ withoutTime(indexJson) = withoutTime(before.indexJson)
  /\ withoutTime(indexMd) = withoutTime(before.indexMd)

\* C4 as stated: with no change between them, the second of two consecutive runs writes
\* output files equal to the first run's apart from the generation timestamp: files map,
\* graph, semantic facts and description records are equal.
C4_Idempotent ==
  SecondRunCompleted =>
    /\ SameIndexOutput
    /\ descJson.files = before.descJson.files
    /\ withoutTime(descMd) = withoutTime(before.descMd)

\* C4 as amended: the second run's index.json and index.md equal the first run's apart
\* from the generation time; every description record equals the first run's apart from
\* carriedFrom, which the second run sets to the first run's generation time; and
\* descriptions.md has the first run's rows, every file counted as carried.
C4_IdempotentApartFromProvenance ==
  SecondRunCompleted =>
    /\ SameIndexOutput
    /\ descJson.schemaVersion = before.descJson.schemaVersion
    /\ DOMAIN descJson.files = DOMAIN before.descJson.files
    /\ \A p \in DOMAIN descJson.files :
         /\ withoutProvenance(descJson.files[p]) = withoutProvenance(before.descJson.files[p])
         /\ "carriedFrom" \in DOMAIN descJson.files[p]
         /\ descJson.files[p].carriedFrom = before.descJson.generatedAt
    /\ descMd.rows = before.descMd.rows
    /\ descMd.files = before.descMd.files
    /\ descMd.carried = descMd.files /\ descMd.updated = 0

\* A second run over an unchanged tree with an edge in its graph, after a first run
\* that generated a description afresh.
C4_Witness ==
  /\ SecondRunCompleted
  /\ \E p \in DOMAIN indexJson.graph.deps : indexJson.graph.deps[p].local # <<>>
  /\ \E p \in DOMAIN before.descJson.files : "carriedFrom" \notin DOMAIN before.descJson.files[p]

\* Every element of the list is smaller than the next: sorted, nothing repeated.
StrictlyAscending(list) ==
  \A i \in 1..(Len(list) - 1) : StrLess(list[i], list[i + 1])

\* C5: after any run, each of deps[P].local, deps[P].localUnresolved and
\* deps[P].external is sorted ascending and repeats no element, also when two
\* specifiers of P resolve to one path or reduce to one package, and when a specifier
\* is imported both statically and dynamically.
C5_SortedDeduplicated ==
  IndexCompleted =>
    \A P \in DOMAIN indexJson.graph.deps :
      /\ StrictlyAscending(indexJson.graph.deps[P].local)
      /\ StrictlyAscending(indexJson.graph.deps[P].localUnresolved)
      /\ StrictlyAscending(indexJson.graph.deps[P].external)

\* The specifier starts with the non-wildcard prefix of an alias rule.
MatchesAlias(spec, aliasPaths) ==
  \E i \in 1..Len(aliasPaths) :
    /\ EndsWith(aliasPaths[i].pattern, << "/", "*" >>)
    /\ StartsWith(spec, DropLast(aliasPaths[i].pattern, 2) \o << "/" >>)

\* Relative, root-absolute or alias-matching.
SyntacticallyLocal(spec, aliasPaths) ==
  IsRelativeSpec(spec) \/ IsRootSpec(spec) \/ MatchesAlias(spec, aliasPaths)

\* C6: every raw specifier of a file goes to exactly one list: a relative,
\* root-absolute or alias-matching specifier to deps.local when it resolves and
\* otherwise to deps.localUnresolved as the raw specifier, never to deps.external;
\* every other specifier to deps.external and never to the two local lists.
C6_ExactlyOneClass ==
  IndexCompleted =>
    \A P \in DOMAIN indexJson.graph.deps :
      LET aliasPaths == readTsconfigPaths(tsconfig)
          raw        == indexJson.files[P].importSpecifiers
                          \o indexJson.files[P].dynamicImportSpecifiers
          d          == indexJson.graph.deps[P]
          locals     == { i \in 1..Len(raw) : SyntacticallyLocal(raw[i], aliasPaths) }
      IN  /\ Len(d.local) + Len(d.localUnresolved) = Cardinality(locals)
          /\ Len(d.external) = Len(raw) - Cardinality(locals)
          /\ \A i \in locals :
               IF Truthy(resolveLocalImport(P, raw[i], aliasPaths))
                 THEN resolveLocalImport(P, raw[i], aliasPaths) \in Range(d.local)
               ELSE raw[i] \in Range(d.localUnresolved)
          /\ \A i \in (1..Len(raw)) \ locals :
               externalPackageName(raw[i]) \in Range(d.external)

\* resolveLocalImport has returned from a call whose specifier has a candidate path.
ResolveReturned ==
  /\ pc = "return"
  /\ "importerRel" \in DOMAIN call
  /\ Truthy(candidateRelOf(call.importerRel, call.spec, readTsconfigPaths(tsconfig)))

\* The candidate of the call, absolute.
CalledCandidate ==
  PathResolve(projectRootAbs,
              candidateRelOf(call.importerRel, call.spec, readTsconfigPaths(tsconfig)))

DirectProbe(i) == CalledCandidate \o RESOLVE_EXTENSIONS[i]

IndexProbe(i) ==
  CalledCandidate \o << "/", "i", "n", "d", "e", "x" >> \o RESOLVE_EXTENSIONS[i]

\* A path under the project root, written relative to it.
UnderRoot(absPath) == SliceFrom(absPath, Len(projectRootAbs) + 1)

\* C7: for a candidate without an extension resolveLocalImport returns the first
\* existing path among candidate + ext in the order of the extension list, then
\* candidate/index + ext in the same order; a candidate with an extension is probed
\* only as it is; when no probed path exists the result is unresolved.
C7_ResolutionCascade ==
  ResolveReturned =>
    LET exts     == 1..Len(RESOLVE_EXTENSIONS)
        directs  == { i \in exts : pathExists(DirectProbe(i)) }
        indexes  == { i \in exts : pathExists(IndexProbe(i)) }
    IN  IF PathExtname(CalledCandidate) # <<>>
          THEN ret.value = IF pathExists(CalledCandidate) THEN UnderRoot(CalledCandidate)
                           ELSE Null
        ELSE IF directs # {}
          THEN \E i \in directs :
                 /\ \A j \in directs : i <= j
                 /\ ret.value = UnderRoot(DirectProbe(i))
        ELSE IF indexes # {}
          THEN \E i \in indexes :
                 /\ \A j \in indexes : i <= j
                 /\ ret.value = UnderRoot(IndexProbe(i))
        ELSE ret.value = Null

\* Two direct matches and an index match of an earlier extension exist, and the
\* earlier direct match is returned.
C7_Witness ==
  /\ ResolveReturned
  /\ PathExtname(CalledCandidate) = <<>>
  /\ \E i, j, k \in 1..Len(RESOLVE_EXTENSIONS) :
       /\ k < i /\ i < j
       /\ pathExists(IndexProbe(k)) /\ pathExists(DirectProbe(i)) /\ pathExists(DirectProbe(j))
       /\ \A h \in 1..(i - 1) : ~pathExists(DirectProbe(h))
       /\ ret.value = UnderRoot(DirectProbe(i))

\* applySimpleAlias has returned.
AliasReturned == pc = "return" /\ DOMAIN call = { "spec" }

\* The rules whose non-wildcard prefix starts the specifier of the call.
MatchingRules ==
  { i \in 1..Len(tsconfig.paths) :
      /\ EndsWith(tsconfig.paths[i].pattern, << "/", "*" >>)
      /\ StartsWith(call.spec, DropLast(tsconfig.paths[i].pattern, 2) \o << "/" >>) }

\* The first target of the rule is './*' or 'dir/*'.
HasUsableTarget(i) ==
  /\ tsconfig.paths[i].targets # <<>>
  /\ EndsWith(tsconfig.paths[i].targets[1], << "/", "*" >>)

\* What the first target of rule i makes of the specifier: the captured suffix for
\* './*', dir + '/' + suffix for 'dir/*'.
SubstitutedBy(i) ==
  LET suffix == SliceFrom(call.spec, Len(tsconfig.paths[i].pattern) - 1)
      target == tsconfig.paths[i].targets[1]
  IN  IF target = << ".", "/", "*" >> THEN suffix
      ELSE DropLast(target, 2) \o << "/" >> \o suffix

\* C8 as stated: the first rule, in configuration order, whose non-wildcard prefix
\* matches the specifier decides: only its first target is used, and no later rule and
\* no later target is consulted once a prefix has matched.
C8_FirstMatchingRuleWins ==
  AliasReturned =>
    IF MatchingRules = {} THEN ret.value = Null
    ELSE \E i \in MatchingRules :
           /\ \A j \in MatchingRules : i <= j
           /\ ret.value = IF HasUsableTarget(i) THEN SubstitutedBy(i) ELSE Null

\* C8 as amended: the first rule whose non-wildcard prefix matches the specifier and
\* whose first target is './*' or 'dir/*' decides, by that first target alone; a
\* matching rule whose first target is missing or of another form is passed over and
\* the later rules are consulted; no later target is ever used.
C8_FirstUsableRuleWins ==
  AliasReturned =>
    LET usable == { i \in MatchingRules : HasUsableTarget(i) } IN
    IF usable = {} THEN ret.value = Null
    ELSE \E i \in usable :
           /\ \A j \in usable : i <= j
           /\ ret.value = SubstitutedBy(i)

\* The first matching rule has two targets and a later rule matches as well; the result
\* is what the first target of the first rule gives.
C8_Witness ==
  /\ AliasReturned
  /\ Cardinality(MatchingRules) = 2
  /\ HasUsableTarget(1) /\ HasUsableTarget(2)
  /\ Len(tsconfig.paths[1].targets) = 2
  /\ SubstitutedBy(1) # SubstitutedBy(2)
  /\ ret.value = SubstitutedBy(1)

\* C9: the graph is recomputed in every run: for a file whose record is carried
\* unchanged, every import that has a candidate path is an edge in deps.local, and in
\* the target's reverseDeps, exactly when it resolves against the filesystem as it is
\* at this run, and is in deps.localUnresolved otherwise.
C9_GraphRecomputed ==
  ixrun # NoRun =>
    \A P \in ixrun.reused :
      LET aliasPaths == readTsconfigPaths(tsconfig)
          raw        == ixrun.index.files[P].importSpecifiers
                          \o ixrun.index.files[P].dynamicImportSpecifiers
          d          == ixrun.index.graph.deps[P]
          reverse    == ixrun.index.graph.reverseDeps
      IN  /\ \A Q \in Range(d.local) :
               /\ pathExists(absOf(Q))
               /\ Q \in DOMAIN reverse /\ P \in Range(reverse[Q])
          /\ \A i \in 1..Len(raw) :
               Truthy(candidateRelOf(P, raw[i], aliasPaths)) =>
                 IF Truthy(resolveLocalImport(P, raw[i], aliasPaths))
                   THEN /\ resolveLocalImport(P, raw[i], aliasPaths) \in Range(d.local)
                        /\ raw[i] \notin Range(d.localUnresolved)
                 ELSE raw[i] \in Range(d.localUnresolved)

\* A file is carried unchanged while the target of one of its imports has appeared or
\* disappeared since the prior snapshot: its deps entry differs from the prior one.
C9_Witness ==
  /\ ixrun # NoRun
  /\ \E P \in ixrun.reused :
       /\ P \in DOMAIN ixrun.previousIndex.graph.deps
       /\ ixrun.previousIndex.graph.deps[P].local # ixrun.index.graph.deps[P].local
       /\ ixrun.previousIndex.graph.deps[P].localUnresolved
            # ixrun.index.graph.deps[P].localUnresolved

\* C10: in the description pass a file whose hash differs from its prior description
\* record's, or that has no prior description, gets a freshly generated description
\* flagged needsReview; every other file, the prior description file being of the
\* current schema version, keeps its prior record, description and flag included, plus
\* carriedFrom set to the prior description file's generation time.
C10_CarryOrFlag ==
  dsrun # NoRun =>
    \A p \in DOMAIN dsrun.index.files :
      LET file    == dsrun.index.files[p]
          record  == dsrun.next.files[p]
          carries == /\ dsrun.prev.schemaVersion = DESC_SCHEMA_VERSION
                     /\ p \in DOMAIN dsrun.prev.files
                     /\ "description" \in DOMAIN dsrun.prev.files[p]
                     /\ dsrun.prev.files[p].sha256 = file.sha256
      IN  IF carries
            THEN /\ withoutProvenance(record) = withoutProvenance(dsrun.prev.files[p])
                 /\ record.description = dsrun.prev.files[p].description
                 /\ record.needsReview = dsrun.prev.files[p].needsReview
                 /\ "carriedFrom" \in DOMAIN record
                 /\ record.carriedFrom = dsrun.prev.generatedAt
                 /\ p \in dsrun.carried
          ELSE /\ record.needsReview
               /\ record.description = defaultDescription(p, file, dsrun.index.graph.deps[p])
               /\ record.sha256 = file.sha256
               /\ "carriedFrom" \notin DOMAIN record
               /\ p \notin dsrun.carried

\* A description that was reviewed and then carried with its flag cleared is
\* generated afresh and flagged at the first run after the file's hash changed.
C10_Witness ==
  /\ dsrun # NoRun
  /\ \E p \in DOMAIN dsrun.index.files :
       /\ p \in DOMAIN dsrun.prev.files
       /\ "carriedFrom" \in DOMAIN dsrun.prev.files[p]
       /\ ~dsrun.prev.files[p].needsReview
       /\ dsrun.prev.files[p].sha256 # dsrun.index.files[p].sha256
       /\ dsrun.next.files[p].needsReview

\* C11: after a completed index run the keys of the files map and of graph.deps are
\* exactly the tracked files with a recognized source extension: a file of the prior
\* snapshot that is no longer tracked has no entry, and neither has a file on disk that
\* is not tracked.
C11_KeysAreTrackedSources ==
  IndexCompleted =>
    /\ DOMAIN indexJson.files = { p \in tracked : PathExtname(p) \in SOURCE_EXTENSIONS }
    /\ DOMAIN indexJson.graph.deps = DOMAIN indexJson.files

\* A completed run over a tree with a tracked file that is no source file and a source
\* file that is on disk and in the prior snapshot but no longer tracked.
C11_Witness ==
  /\ IndexCompleted
  /\ ixrun # NoRun /\ ixrun.previousIndex # NoFile
  /\ \E p \in tracked : PathExtname(p) \notin SOURCE_EXTENSIONS
  /\ \E p \in DOMAIN ixrun.previousIndex.files :
       /\ p \notin tracked
       /\ absOf(p) \in DOMAIN disk
       /\ p \notin DOMAIN indexJson.files

ExtractReturned == pc = "return" /\ ret # NoRun /\ "kind" \in DOMAIN call

\* The position of the first occurrence of a value among the matches.
firstAt(matches, v) == CHOOSE i \in 1..Len(matches) :
                         matches[i] = v /\ \A j \in 1..(i - 1) : matches[j] # v

\* The first cap distinct matches in text order: fewer than cap distinct values precede them.
FirstDistinct(matches, cap) ==
  { v \in Range(matches) :
      Cardinality({ matches[j] : j \in 1..(firstAt(matches, v) - 1) }) < cap }

CappedAt(recorded, matches, cap) ==
  /\ Len(recorded) <= cap
  /\ Cardinality(Range(recorded)) = Len(recorded)
  /\ Cardinality(Range(matches)) > cap => Len(recorded) = cap
  /\ Range(recorded) = FirstDistinct(matches, cap)

\* C13: apiEndpoints holds at most 25 entries, storageKeys at most 25 and envVars at most
\* 40; when the text has more distinct matches than the cap, exactly cap entries are
\* recorded, and the recorded entries are the first distinct matches in text order.
C13_CappedFacts ==
  ExtractReturned =>
    /\ CappedAt(ret.value.apiEndpoints, call.text.apiLiterals, API_CAP)
    /\ CappedAt(ret.value.storageKeys, call.text.storageLiterals, STORAGE_CAP)
    /\ CappedAt(ret.value.envVars, call.text.envLiterals, ENV_CAP)

\* 40 distinct '/api/' literals, the last of them first in the text: 25 are recorded.
C13_Witness ==
  /\ ExtractReturned
  /\ Cardinality(Range(call.text.apiLiterals)) = API_CAP + MaxOver
  /\ call.text.apiLiterals[1] = Literal("api", API_CAP + MaxOver)
  /\ Len(ret.value.apiEndpoints) = API_CAP
  /\ Literal("api", 1) \notin Range(ret.value.apiEndpoints)

\* A repository-relative path that names a place under the project root.
InsideRepository(relPath) ==
  StartsWith(PathResolve(projectRootAbs, relPath), projectRootAbs \o << "/" >>)

\* C14: the path that resolution of a relative, root-absolute or aliased specifier yields
\* (an entry of deps[P].local, a key of reverseDeps) names a file inside the repository
\* tree; it never escapes the repository root through leading '..' segments.
C14_ResolvesInsideRepository ==
  (pc = "return" /\ "importerRel" \in DOMAIN call /\ Truthy(ret.value)) =>
    /\ InsideRepository(ret.value)
    /\ ~StartsWith(ret.value, << ".", ".", "/" >>)

\* The index child of sync-repo has exited with a failure.
SyncIndexFailed == pc = "ix_exit" /\ driver = "sync" /\ status # 0

\* C15: sync-repo starts the description pass only after the index generation has run to
\* completion and exited 0; when the index generation exits with a non-zero status the
\* description pass is not started, descriptions.json and descriptions.md are as they
\* were before sync-repo began, and sync-repo exits with that same status.
C15_IndexBeforeDescriptions ==
  [][ /\ pc' = "ds_start" => IndexCompleted /\ indexJson = ixrun.index
                                /\ indexMd = digestOf(ixrun.index)
      /\ (driver' = "sync" /\ pc' \in { "ds_write_json", "ds_exit" }
            /\ pc \notin { "ds_write_json", "ds_write_md" }) => pc = "ds_start"
      /\ SyncIndexFailed =>
            /\ descJson = before.descJson /\ descMd = before.descMd
            /\ pc' = "idle" /\ status' = status
            /\ descJson' = descJson /\ descMd' = descMd ]_vars

\* The index child failed while writing index.md and earlier descriptions exist.
C15_Witness ==
  /\ SyncIndexFailed
  /\ ixrun # NoRun
  /\ descJson \notin { NoFile, Partial }
  /\ descJson = before.descJson

\* C16: the files map and the graph of an incremental run, the prior snapshot being
\* present and of the current schema version, equal those of a run that starts with no
\* prior snapshot on the same tree, alias configuration and disk.
C16_ReuseTransparent ==
  (/\ ixrun # NoRun
   /\ ixrun.previousIndex # NoFile
   /\ ixrun.previousIndex.schemaVersion = SCHEMA_VERSION) =>
    Let(buildIndex(NoFile, 0),
        LAMBDA fresh : /\ ixrun.index.files = fresh.files
                       /\ ixrun.index.graph = fresh.graph)

\* The description pass has written descriptions.json.
DescribeCompleted == pc = "ds_exit" /\ status = 0

\* C17: for every file the feature of its description record equals the feature of its
\* record in the index snapshot (files[path].semantic.feature), whatever the shape of
\* its path: page, component, utility or worker directory, entry filename, or other.
C17_SameFeature ==
  DescribeCompleted =>
    \A p \in DOMAIN descJson.files :
      descJson.files[p].feature = indexJson.files[p].semantic.feature

====
